---- MODULE Spec2Model ----
(***************************************************************************)
(* Model of the quote-compositing scripts of insta-quote-bot:              *)
(*   "overlay"  = overlay_quote_on_image  (src/openai quote generator.py)  *)
(*   "process"  = process_image           (utils.py)                       *)
(* A quote is a sequence of word lengths (hyphen-free words separated by   *)
(* single spaces); a wrapped line is a record of the word pieces on it and *)
(* its length in characters.  Pillow's measurements are modelled by a font *)
(* whose glyphs all have the same advance: a scalable font's advance is    *)
(* the size times the glyph's em fraction, rounded to whole pixels (hinted *)
(* advances), the bitmap default font's advance is fixed.                  *)
(***************************************************************************)
EXTENDS Integers, Sequences, FiniteSets

VARIABLES pc, run, clock, variant, quote, teacher, glyph, fontOK, stabilityKey,
          timestamp, source, outcome, bg, scalable, font_size, lines,
          shrinkSteps, growSteps, text_width, text_height, text_x, text_y,
          rect, panel, layouts, files

vars == <<pc, run, clock, variant, quote, teacher, glyph, fontOK, stabilityKey,
          timestamp, source, outcome, bg, scalable, font_size, lines,
          shrinkSteps, growSteps, text_width, text_height, text_x, text_y,
          rect, panel, layouts, files>>

----------------------------------------------------------------------------
(* Bounds of the model *)

\* quotes of up to MaxWords words over WordLens are enumerated
MaxWords == 2
\* number of five-letter words of the long sample quote
LongWords == 60
\* runs of the script in one behaviour of SpecRuns
MaxRuns == 2
\* last second of the wall clock
MaxClock == 1

----------------------------------------------------------------------------
(* Program constants *)

CanvasSize == 1080
WrapWidth == 40
InitFontSize == 80
MaxFontSize == 120
BottomMargin == 100
\* ImageFont.load_default(): fixed 6 x 11 bitmap glyphs
DefaultCharW == 6
DefaultLineH == 11
\* ImageDraw.multiline_textbbox: default spacing between lines
LineSpacing == 4

MinFontSize(v) == IF v = "overlay" THEN 10 ELSE 30
FontStep(v) == IF v = "overlay" THEN 2 ELSE 5
\* grow threshold as a fraction of max_width: 0.8 and 0.85
GrowNum(v) == IF v = "overlay" THEN 80 ELSE 85
\* lowest top edge of the text as a fraction of the height: 0.7 and 0.5
MinTopNum(v) == IF v = "overlay" THEN 70 ELSE 50
RectPadding(v) == IF v = "overlay" THEN 20 ELSE 40
\* font_size after the fallback to the default font: overlay keeps the 80
\* assigned before truetype() raised, process sets 40
FallbackFontSize(v) == IF v = "overlay" THEN InitFontSize ELSE 40
\* max_width = int(img.width * 0.9)
MaxWidth == (CanvasSize * 9) \div 10

Sources(v) == IF v = "overlay" THEN <<"openai", "stable_diffusion">>
              ELSE <<"stable_diffusion">>

----------------------------------------------------------------------------
(* Inputs *)

Variants == {"overlay", "process"}
WordLens == {3, 21, 39, 41, 85}
\* em fraction (percent) of the glyphs of the text: narrow, average, wide
Glyphs == {22, 35, 50, 90}
RamDass == <<3, 4>>
LongTeacher == <<6, 12, 3, 7, 6, 7>>
Teachers == {RamDass, LongTeacher}
BeHereNow == <<2, 4, 3>>

RECURSIVE SeqsUpTo(_, _)
SeqsUpTo(S, n) ==
    IF n = 0 THEN {<<>>}
    ELSE LET shorter == SeqsUpTo(S, n - 1)
         IN  shorter \cup {Append(q, w) : q \in shorter, w \in S}

Rep(n, w) == [i \in 1..n |-> w]

Quotes == SeqsUpTo(WordLens, MaxWords)
          \cup {BeHereNow, Rep(6, 21), Rep(LongWords, 5), Rep(LongWords \div 2, 5)}
ShortQuotes == {<<>>, BeHereNow, Rep(6, 21)}

Outcomes(src, key) ==
    IF src = "openai" THEN {"image", "no_data", "http_error"}
    ELSE IF key THEN {"image", "no_data", "http_error", "filtered"}
    ELSE {"no_key"}

----------------------------------------------------------------------------
(* textwrap.fill(text, width=40) with the defaults break_long_words=True,  *)
(* drop_whitespace=True, on chunks word, " ", word, ...                    *)

RECURSIVE SumSeq(_)
SumSeq(s) == IF s = <<>> THEN 0 ELSE Head(s) + SumSeq(Tail(s))

RECURSIVE MaxLineLen(_)
MaxLineLen(ls) ==
    IF ls = <<>> THEN 0
    ELSE LET m == MaxLineLen(Tail(ls))
         IN  IF Head(ls).len > m THEN Head(ls).len ELSE m

RECURSIVE SumLineLen(_)
SumLineLen(ls) == IF ls = <<>> THEN 0 ELSE Head(ls).len + SumLineLen(Tail(ls))

RECURSIVE Pieces(_)
Pieces(ls) == IF ls = <<>> THEN <<>> ELSE Head(ls).w \o Pieces(Tail(ls))

\* the inner loop of _wrap_chunks: append chunks while they fit; sp tells
\* that the line ends with a space chunk that fitted before a word that did not
RECURSIVE FitLine(_, _, _)
FitLine(rest, cur, len) ==
    IF rest = <<>> THEN [cur |-> cur, len |-> len, rest |-> rest, sp |-> FALSE]
    ELSE IF cur = <<>>
    THEN IF Head(rest) <= WrapWidth
         THEN FitLine(Tail(rest), <<Head(rest)>>, Head(rest))
         ELSE [cur |-> cur, len |-> len, rest |-> rest, sp |-> FALSE]
    ELSE IF len + 1 > WrapWidth
    THEN [cur |-> cur, len |-> len, rest |-> rest, sp |-> FALSE]
    ELSE IF len + 1 + Head(rest) <= WrapWidth
    THEN FitLine(Tail(rest), Append(cur, Head(rest)), len + 1 + Head(rest))
    ELSE [cur |-> cur, len |-> len, rest |-> rest, sp |-> TRUE]

\* break_long_words=False: a long word goes whole on a line of its own
HandleLongWord_unbroken(rest, cur, len, sp) ==
    IF cur = <<>>
    THEN [line |-> [w |-> <<Head(rest)>>, len |-> Head(rest)], rest |-> Tail(rest)]
    ELSE [line |-> [w |-> cur, len |-> len], rest |-> rest]

\* _handle_long_word: the word's first space_left characters fill the line;
\* with no space left the line keeps its trailing space chunk
HandleLongWord(rest, cur, len, sp) ==
    LET cur_len == IF sp THEN len + 1 ELSE len
        space_left == WrapWidth - cur_len
    IN  IF space_left = 0
        THEN [line |-> [w |-> cur, len |-> cur_len], rest |-> rest]
        ELSE [line |-> [w |-> Append(cur, space_left), len |-> WrapWidth],
              rest |-> <<Head(rest) - space_left>> \o Tail(rest)]

\* one line of _wrap_chunks
WrapLine(rest) ==
    LET f == FitLine(rest, <<>>, 0)
    IN  IF f.rest # <<>> /\ Head(f.rest) > WrapWidth
        THEN HandleLongWord(f.rest, f.cur, f.len, f.sp)
        ELSE [line |-> [w |-> f.cur, len |-> f.len], rest |-> f.rest]

RECURSIVE Wrap(_)
Wrap(words) ==
    IF words = <<>> THEN <<>>
    ELSE LET r == WrapLine(words)
         IN  <<r.line>> \o Wrap(r.rest)

\* "- " followed by the teacher's name
Attribution(t) == <<1>> \o t
LineOf(words) == [w |-> words, len |-> SumSeq(words) + Len(words) - 1]
EmptyLine == [w |-> <<>>, len |-> 0]

\* overlay: wrapped_text = textwrap.fill(quote_text, 40);
\*          full_text = f"{wrapped_text}\n- {teacher}"
OverlayLines(q, t) ==
    (IF q = <<>> THEN <<EmptyLine>> ELSE Wrap(q)) \o <<LineOf(Attribution(t))>>

\* process: every line of f"{quote_text}\n- {teacher}" is wrapped, the
\* result is stripped
ProcessLines(q, t) == Wrap(q) \o Wrap(Attribution(t))

FullTextLines(v, q, t) ==
    IF v = "overlay" THEN OverlayLines(q, t) ELSE ProcessLines(q, t)

----------------------------------------------------------------------------
(* Pillow's measurements *)

CharAdvance(scal, g, s) == IF scal THEN (s * g + 50) \div 100 ELSE DefaultCharW
LineHeight(scal, s) == IF scal THEN s ELSE DefaultLineH

\* font.getbbox(full_text)[2]: the text as ONE line, each newline a glyph
GetBBoxRight(ls, scal, g, s) ==
    (SumLineLen(ls) + Len(ls) - 1) * CharAdvance(scal, g, s)

\* draw.multiline_textbbox((0, 0), text, font): <<width, height>>
MultilineBBox(ls, scal, g, s) ==
    <<MaxLineLen(ls) * CharAdvance(scal, g, s),
      Len(ls) * LineHeight(scal, s) + (Len(ls) - 1) * LineSpacing>>

----------------------------------------------------------------------------
(* The sizing loops *)

\* while width > max_width and font_size > MIN
ShrinkGuard(v, w, s) == w > MaxWidth /\ s > MinFontSize(v)

\* while width < max_width * 0.8 (0.85) and font_size < 120
GrowGuard(v, w, s) == w * 100 < MaxWidth * GrowNum(v) /\ s < MaxFontSize

\* font_size -= 1
ShrinkTo_slow(v, s) == s - 1

\* font_size -= 2 * step
ShrinkTo_double(v, s) == s - 2 * FontStep(v)

\* font_size -= step
ShrinkTo(v, s) == s - FontStep(v)

\* font_size += 5 in both scripts
GrowTo_five(v, s) == s + 5

\* font_size += step
GrowTo(v, s) == s + FontStep(v)

\* the width the next loop test reads: overlay calls font.getbbox in the
\* test, process reads the text_width measured before the loop or by the
\* last iteration
CurWidth ==
    IF variant = "overlay"
    THEN GetBBoxRight(lines, scalable, glyph, font_size)
    ELSE text_width

----------------------------------------------------------------------------
(* Positioning and panel *)

\* text_x = (img.width - text_width) // 2
TextX(tw) == (CanvasSize - tw) \div 2

\* int(img.height * 0.7), int(img.height * 0.5)
MinTop(v) == (CanvasSize * MinTopNum(v)) \div 100

\* text_y = img.height - text_height - 100, moved down to MinTop when above it
TextY(v, th) ==
    LET y == CanvasSize - th - BottomMargin
    IN  IF y < MinTop(v) THEN MinTop(v) ELSE y

\* rect_x1 .. rect_y2
PanelRect(v, tx, ty, tw, th) ==
    [x1 |-> tx - RectPadding(v), y1 |-> ty - RectPadding(v),
     x2 |-> tx + tw + RectPadding(v), y2 |-> ty + th + RectPadding(v)]

Clamp(x) == IF x < 0 THEN 0 ELSE IF x > CanvasSize THEN CanvasSize ELSE x

\* overlay_draw.rectangle(...): ImageDraw paints only the part of the
\* rectangle that lies on the overlay image
DrawnPanel(r) ==
    [x1 |-> Clamp(r.x1), y1 |-> Clamp(r.y1), x2 |-> Clamp(r.x2), y2 |-> Clamp(r.y2)]

NoRect == [x1 |-> 0, y1 |-> 0, x2 |-> 0, y2 |-> 0]

\* os.path.join(source_dir, f"{kind}_{teacher}_{timestamp}.png")
OutputPath(dir, kind, t, ts) == <<dir, kind, t, ts>>

----------------------------------------------------------------------------
(* State machine *)

Init ==
    /\ pc = "idle" /\ run = 0 /\ clock = 0
    /\ variant = "overlay" /\ quote = <<>> /\ teacher = RamDass
    /\ glyph = 50 /\ fontOK = TRUE /\ stabilityKey = TRUE
    /\ timestamp = 0 /\ source = 1 /\ outcome = "none" /\ bg = "none"
    /\ scalable = FALSE /\ font_size = 0 /\ lines = <<>>
    /\ shrinkSteps = 0 /\ growSteps = 0
    /\ text_width = 0 /\ text_height = 0 /\ text_x = 0 /\ text_y = 0
    /\ rect = NoRect /\ panel = NoRect /\ layouts = <<>> /\ files = {}

\* the script is started: module import (the credential checks) with the
\* quote already generated
StartRun(Q, T, R) ==
    /\ pc \in {"idle", "done", "config_error", "font_error"}
    /\ run < R
    /\ \E v \in Variants, q \in Q, t \in T, g \in Glyphs,
          f \in BOOLEAN, k \in BOOLEAN :
          /\ variant' = v /\ quote' = q /\ teacher' = t /\ glyph' = g
          /\ fontOK' = f /\ stabilityKey' = k
          \* utils.py raises ValueError when STABILITY_API_KEY is not set
          /\ pc' = IF v = "process" /\ ~k THEN "config_error" ELSE "prepare"
    /\ run' = run + 1
    /\ source' = 1 /\ outcome' = "none" /\ bg' = "none"
    /\ scalable' = FALSE /\ font_size' = 0 /\ lines' = <<>>
    /\ shrinkSteps' = 0 /\ growSteps' = 0
    /\ text_width' = 0 /\ text_height' = 0 /\ text_x' = 0 /\ text_y' = 0
    /\ rect' = NoRect /\ panel' = NoRect /\ layouts' = <<>>
    /\ UNCHANGED <<clock, timestamp, files>>

\* quote.split(" - ", 1); timestamp = datetime.now().strftime(...)
Prepare ==
    /\ pc = "prepare"
    /\ timestamp' = clock
    /\ pc' = IF variant = "overlay" THEN "loadfont" ELSE "fetch"
    /\ UNCHANGED <<run, clock, variant, quote, teacher, glyph, fontOK,
                   stabilityKey, source, outcome, bg, scalable, font_size,
                   lines, shrinkSteps, growSteps, text_width, text_height,
                   text_x, text_y, rect, panel, layouts, files>>

\* try: ImageFont.truetype("Arial.ttf", 80)  except: ImageFont.load_default()
LoadFont ==
    /\ pc = "loadfont"
    /\ scalable' = fontOK
    /\ font_size' = IF fontOK THEN InitFontSize ELSE FallbackFontSize(variant)
    /\ pc' = IF variant = "overlay" THEN "fetch" ELSE "wrap"
    /\ UNCHANGED <<run, clock, variant, quote, teacher, glyph, fontOK,
                   stabilityKey, timestamp, source, outcome, bg, lines,
                   shrinkSteps, growSteps, text_width, text_height,
                   text_x, text_y, rect, panel, layouts, files>>

\* teacher_img = fetch_func(teacher); a None result is replaced by
\* Image.new("RGB", (1080, 1080), color=(50, 50, 50))
Fetch ==
    /\ pc = "fetch"
    /\ \E o \in Outcomes(Sources(variant)[source], stabilityKey) :
          /\ outcome' = o
          /\ bg' = IF o = "image" THEN "portrait" ELSE "gray"
    /\ pc' = IF variant = "overlay" THEN "wrap" ELSE "saveplain"
    /\ UNCHANGED <<run, clock, variant, quote, teacher, glyph, fontOK,
                   stabilityKey, timestamp, source, scalable, font_size,
                   lines, shrinkSteps, growSteps, text_width, text_height,
                   text_x, text_y, rect, panel, layouts, files>>

\* process_image: img.save(plain_path)
SavePlain ==
    /\ pc = "saveplain"
    /\ files' = files \cup
          {<<OutputPath(Sources(variant)[source], "plain", teacher, timestamp), run>>}
    /\ pc' = "loadfont"
    /\ UNCHANGED <<run, clock, variant, quote, teacher, glyph, fontOK,
                   stabilityKey, timestamp, source, outcome, bg, scalable,
                   font_size, lines, shrinkSteps, growSteps, text_width,
                   text_height, text_x, text_y, rect, panel, layouts>>

\* the text is wrapped; process_image also takes the first measurement
WrapText ==
    /\ pc = "wrap"
    /\ lines' = FullTextLines(variant, quote, teacher)
    /\ IF variant = "process"
       THEN LET bb == MultilineBBox(lines', scalable, glyph, font_size)
            IN  text_width' = bb[1] /\ text_height' = bb[2]
       ELSE UNCHANGED <<text_width, text_height>>
    /\ shrinkSteps' = 0 /\ growSteps' = 0
    /\ pc' = "shrink"
    /\ UNCHANGED <<run, clock, variant, quote, teacher, glyph, fontOK,
                   stabilityKey, timestamp, source, outcome, bg, scalable,
                   font_size, text_x, text_y, rect, panel, layouts, files>>

\* the font is reloaded at the new size; process_image measures again
Resize(s) ==
    /\ font_size' = s
    /\ IF variant = "process"
       THEN LET bb == MultilineBBox(lines, scalable, glyph, s)
            IN  text_width' = bb[1] /\ text_height' = bb[2]
       ELSE UNCHANGED <<text_width, text_height>>

ShrinkStep ==
    /\ pc = "shrink"
    /\ ShrinkGuard(variant, CurWidth, font_size)
    /\ fontOK
    /\ Resize(ShrinkTo(variant, font_size))
    /\ shrinkSteps' = shrinkSteps + 1
    /\ UNCHANGED <<pc, run, clock, variant, quote, teacher, glyph, fontOK,
                   stabilityKey, timestamp, source, outcome, bg, scalable,
                   lines, growSteps, text_x, text_y, rect, panel, layouts,
                   files>>

ShrinkExit ==
    /\ pc = "shrink"
    /\ ~ShrinkGuard(variant, CurWidth, font_size)
    /\ pc' = "grow"
    /\ UNCHANGED <<run, clock, variant, quote, teacher, glyph, fontOK,
                   stabilityKey, timestamp, source, outcome, bg, scalable,
                   font_size, lines, shrinkSteps, growSteps, text_width,
                   text_height, text_x, text_y, rect, panel, layouts, files>>

GrowStep ==
    /\ pc = "grow"
    /\ GrowGuard(variant, CurWidth, font_size)
    /\ fontOK
    /\ Resize(GrowTo(variant, font_size))
    /\ growSteps' = growSteps + 1
    /\ UNCHANGED <<pc, run, clock, variant, quote, teacher, glyph, fontOK,
                   stabilityKey, timestamp, source, outcome, bg, scalable,
                   lines, shrinkSteps, text_x, text_y, rect, panel, layouts,
                   files>>

GrowExit ==
    /\ pc = "grow"
    /\ ~GrowGuard(variant, CurWidth, font_size)
    /\ pc' = "position"
    /\ UNCHANGED <<run, clock, variant, quote, teacher, glyph, fontOK,
                   stabilityKey, timestamp, source, outcome, bg, scalable,
                   font_size, lines, shrinkSteps, growSteps, text_width,
                   text_height, text_x, text_y, rect, panel, layouts, files>>

\* a loop body runs with the default font in use: font_size is changed and
\* ImageFont.truetype("Arial.ttf", font_size) raises OSError, which nothing
\* catches
ReloadFails ==
    /\ ~fontOK
    /\ \/ /\ pc = "shrink"
          /\ ShrinkGuard(variant, CurWidth, font_size)
          /\ font_size' = ShrinkTo(variant, font_size)
       \/ /\ pc = "grow"
          /\ GrowGuard(variant, CurWidth, font_size)
          /\ font_size' = GrowTo(variant, font_size)
    /\ pc' = "font_error"
    /\ UNCHANGED <<run, clock, variant, quote, teacher, glyph, fontOK,
                   stabilityKey, timestamp, source, outcome, bg, scalable,
                   lines, shrinkSteps, growSteps, text_width, text_height,
                   text_x, text_y, rect, panel, layouts, files>>

\* overlay measures the final bounding box; the text is placed
Position ==
    /\ pc = "position"
    /\ LET bb == MultilineBBox(lines, scalable, glyph, font_size)
           tw == IF variant = "overlay" THEN bb[1] ELSE text_width
           th == IF variant = "overlay" THEN bb[2] ELSE text_height
       IN  /\ text_width' = tw /\ text_height' = th
           /\ text_x' = TextX(tw)
           /\ text_y' = TextY(variant, th)
    /\ pc' = "composite"
    /\ UNCHANGED <<run, clock, variant, quote, teacher, glyph, fontOK,
                   stabilityKey, timestamp, source, outcome, bg, scalable,
                   font_size, lines, shrinkSteps, growSteps, rect, panel,
                   layouts, files>>

\* the panel is drawn on the overlay, merged, and the text drawn on top
Composite ==
    /\ pc = "composite"
    /\ rect' = PanelRect(variant, text_x, text_y, text_width, text_height)
    /\ panel' = DrawnPanel(rect')
    /\ pc' = "save"
    /\ UNCHANGED <<run, clock, variant, quote, teacher, glyph, fontOK,
                   stabilityKey, timestamp, source, outcome, bg, scalable,
                   font_size, lines, shrinkSteps, growSteps, text_width,
                   text_height, text_x, text_y, layouts, files>>

Layout ==
    [font_size |-> font_size, text_x |-> text_x, text_y |-> text_y,
     text_width |-> text_width, text_height |-> text_height, panel |-> panel]

\* img.save(output_path); overlay goes on with the next source
Save ==
    /\ pc = "save"
    /\ files' = files \cup
          {<<OutputPath(Sources(variant)[source], "quote", teacher, timestamp), run>>}
    /\ layouts' = Append(layouts, Layout)
    /\ IF source < Len(Sources(variant))
       THEN source' = source + 1 /\ pc' = "fetch"
       ELSE source' = source /\ pc' = "done"
    /\ UNCHANGED <<run, clock, variant, quote, teacher, glyph, fontOK,
                   stabilityKey, timestamp, outcome, bg, scalable, font_size,
                   lines, shrinkSteps, growSteps, text_width, text_height,
                   text_x, text_y, rect, panel>>

\* a second of wall-clock time passes
Tick ==
    /\ clock < MaxClock
    /\ clock' = clock + 1
    /\ UNCHANGED <<pc, run, variant, quote, teacher, glyph, fontOK,
                   stabilityKey, timestamp, source, outcome, bg, scalable,
                   font_size, lines, shrinkSteps, growSteps, text_width,
                   text_height, text_x, text_y, rect, panel, layouts, files>>

Steps ==
    \/ Prepare \/ LoadFont \/ Fetch \/ SavePlain \/ WrapText
    \/ ShrinkStep \/ ShrinkExit \/ GrowStep \/ GrowExit \/ ReloadFails
    \/ Position \/ Composite \/ Save

\* one run of the script on any of the sample inputs
Next == StartRun(Quotes, Teachers, 1) \/ Steps

Spec == Init /\ [][Next]_vars

\* the script run again and again while the clock advances
NextRuns == StartRun(ShortQuotes, {RamDass}, MaxRuns) \/ Steps \/ Tick

SpecRuns == Init /\ [][NextRuns]_vars

----------------------------------------------------------------------------
(* Claims *)

InBounds(x, y, w, h) ==
    0 <= x /\ x + w <= CanvasSize /\ 0 <= y /\ y + h <= CanvasSize

\* C1: the text rectangle that is drawn, [text_x, text_x + text_width] x
\* [text_y, text_y + text_height], lies fully inside the canvas.
C1_TextInsideCanvas ==
    pc = "save" => InBounds(text_x, text_y, text_width, text_height)

\* C2: the panel drawn behind the text is the text bounding box expanded by
\* the padding on all four sides and clipped to the canvas; it contains the
\* text bounding box and its four edges lie within [0, canvas size].
C2_PanelContainsText ==
    pc = "save" =>
        /\ panel = DrawnPanel(PanelRect(variant, text_x, text_y,
                                        text_width, text_height))
        /\ panel.x1 <= text_x /\ text_x + text_width <= panel.x2
        /\ panel.y1 <= text_y /\ text_y + text_height <= panel.y2
        /\ panel.x1 >= 0 /\ panel.x2 <= CanvasSize
        /\ panel.y1 >= 0 /\ panel.y2 <= CanvasSize

\* the lines of the wrapped text that hold the quote
QuoteLines ==
    IF variant = "overlay" THEN SubSeq(lines, 1, Len(lines) - 1)
    ELSE SubSeq(lines, 1, Len(lines) - Len(Wrap(Attribution(teacher))))

Wrapped == pc \in {"shrink", "grow", "position", "composite", "save"}

\* C3 (as stated): no line of the wrapped quote is longer than the wrap
\* width except a single word longer than it, which stays whole on a line of
\* its own; no word is split; the attribution follows as one unwrapped line.
C3_LongWordsUnbroken ==
    Wrapped =>
        /\ \A i \in 1..Len(QuoteLines) :
              \/ QuoteLines[i].len <= WrapWidth
              \/ Len(QuoteLines[i].w) = 1 /\ QuoteLines[i].w[1] > WrapWidth
        /\ Pieces(QuoteLines) = quote
        /\ lines[Len(lines)] = LineOf(Attribution(teacher))

\* the pieces ps are the words ws in order, every word of at most the wrap
\* width as one piece, every longer word as consecutive pieces that add up
\* to it (left: what is still missing of the word being put together)
RECURSIVE SplitsOf(_, _, _)
SplitsOf(ps, ws, left) ==
    IF left > 0
    THEN /\ ps # <<>>
         /\ Head(ps) <= left
         /\ SplitsOf(Tail(ps), ws, left - Head(ps))
    ELSE IF ws = <<>> THEN ps = <<>>
    ELSE IF Head(ws) <= WrapWidth
    THEN /\ ps # <<>>
         /\ Head(ps) = Head(ws)
         /\ SplitsOf(Tail(ps), Tail(ws), 0)
    ELSE SplitsOf(ps, Tail(ws), Head(ws))

\* C3 (amended): no line of the wrapped quote is longer than the wrap width,
\* without exception: a word longer than the wrap width is split across
\* lines, while every other word stays whole and nothing is lost.
\* overlay_quote_on_image appends the attribution as one unwrapped line;
\* process_image wraps the attribution too, so there no line at all is
\* longer than the wrap width.
C3_WrapFitsWidth ==
    Wrapped =>
        /\ \A i \in 1..Len(QuoteLines) : QuoteLines[i].len <= WrapWidth
        /\ SplitsOf(Pieces(QuoteLines), quote, 0)
        /\ variant = "overlay" => lines[Len(lines)] = LineOf(Attribution(teacher))
        /\ variant = "process" => \A i \in 1..Len(lines) : lines[i].len <= WrapWidth

\* a quote with a word longer than the wrap width has been wrapped, and the
\* word's pieces lie on different lines
C3_Witness ==
    /\ Wrapped
    /\ \E i \in 1..Len(quote) : quote[i] > WrapWidth
    /\ Len(Pieces(QuoteLines)) > Len(quote)

\* C4: the shrink loop and the grow loop each run at most
\* (max_font_size - min_font_size) / step iterations.
C4_LoopBounds ==
    LET most == (MaxFontSize - MinFontSize(variant)) \div FontStep(variant)
    IN  shrinkSteps <= most /\ growSteps <= most

\* the shrink loop has gone all the way down to the minimum size and stopped
\* there with the text still too wide
C4_Witness ==
    /\ pc = "grow"
    /\ font_size = MinFontSize(variant)
    /\ shrinkSteps = (InitFontSize - MinFontSize(variant)) \div FontStep(variant)
    /\ CurWidth > MaxWidth

\* C5 (as stated): once the shrink loop has executed a step, the grow loop
\* executes none.
C5_NeverBoth == shrinkSteps >= 1 => growSteps = 0

\* C5 (amended): once the shrink loop has executed a step, the grow loop
\* executes at most one step.
C5_AtMostOneGrowAfterShrink == shrinkSteps >= 1 => growSteps <= 1

\* both loops have changed the font size in one invocation
C5_Witness == pc = "position" /\ shrinkSteps >= 1 /\ growSteps = 1

\* C6: with the default font in use no shrink or grow step is taken, the
\* scalable font is never reloaded, and the run is not aborted.
C6_FallbackNeverAborts ==
    ~fontOK => pc # "font_error" /\ shrinkSteps = 0 /\ growSteps = 0

\* C7: when sizing has finished with a scalable font, the width of the final
\* multi-line text lies between the grow threshold and max_width.
C7_WidthInTargetRange ==
    (pc = "save" /\ scalable) =>
        /\ text_width * 100 >= MaxWidth * GrowNum(variant)
        /\ text_width <= MaxWidth

\* C8: two runs never write the same output path.
C8_UniquePaths ==
    \A f \in files : \A g \in files : f[1] = g[1] => f[2] = g[2]

\* C9: whenever a provider gives no image (no data, an error, a missing
\* credential, a safety rejection) the gray canvas is used and the run is not
\* aborted: it goes on to layout and save, also for the remaining provider.
C9_ProviderFailureRecovered ==
    (outcome \notin {"none", "image"}) => bg = "gray" /\ pc # "font_error"

\* C10: in overlay_quote_on_image the layout computed for the second source
\* (font size, text position and size, panel) equals the layout computed for
\* the first.
C10_SameLayout == Len(layouts) = 2 => layouts[1] = layouts[2]

\* both sources have been laid out and the loops had changed the font size
C10_Witness ==
    /\ Len(layouts) = 2
    /\ layouts[1].font_size # InitFontSize
    /\ fontOK

====
